---- MODULE Spec2Model ----
(***************************************************************************)
(* Interactive search map of the capital-greenspace web map: the ranking   *)
(* handler (ranking.js), the location search handler (nearby.js), the      *)
(* global state of config.js and the reset handlers of ui.js and           *)
(* search_name.js, as a state machine over the global `parks` catalog.     *)
(*                                                                         *)
(* JavaScript values are records [t, n, s]: t is the type tag, n the value *)
(* of a number, s the characters of a string (a sequence of one-character  *)
(* strings).  Coercions (Number, String, parseInt, parseFloat, >=, -, !==, *)
(* toLowerCase, trim) are computed as the language defines them on these   *)
(* values.                                                                 *)
(***************************************************************************)
EXTENDS Integers, Sequences, FiniteSets, TLC

(***************************************************************************)
(* Bounds of the model.                                                    *)
(***************************************************************************)
NParks == 3        \* records in the catalog
MaxScore == 2      \* metric scores are 0..MaxScore
MaxPending == 2    \* deferred ranking computations and location searches
                   \* awaiting their callback at once
MaxResp == 2       \* candidates in an arbitrary backend response
MaxCoord == 2      \* coordinates are 0..MaxCoord

(***************************************************************************)
(* JavaScript values.                                                      *)
(***************************************************************************)
Num(k) == [t |-> "num", n |-> k, s |-> <<>>]
Str(cs) == [t |-> "str", n |-> 0, s |-> cs]
Null == [t |-> "null", n |-> 0, s |-> <<>>]
Undef == [t |-> "undef", n |-> 0, s |-> <<>>]
NaN == [t |-> "nan", n |-> 0, s |-> <<>>]

Digits == <<"0", "1", "2", "3", "4", "5", "6", "7", "8", "9">>

IsDigit(c) == \E d \in 1..10 : Digits[d] = c

DigitVal(c) == (CHOOSE d \in 1..10 : Digits[d] = c) - 1

UpperLetters == {"A", "E", "H", "P", "T"}

LowerLetters == {"a", "e", "h", "p", "t", "x"}

IsLetter(c) == c \in UpperLetters \cup LowerLetters

\* UTF-16 code unit of the characters the model uses
CharCode(c) ==
    CASE c = " " -> 32
      [] c = "-" -> 45
      [] c = "." -> 46
      [] IsDigit(c) -> 48 + DigitVal(c)
      [] c = "A" -> 65 [] c = "E" -> 69 [] c = "H" -> 72
      [] c = "P" -> 80 [] c = "T" -> 84
      [] c = "a" -> 97 [] c = "e" -> 101 [] c = "h" -> 104
      [] c = "p" -> 112 [] c = "t" -> 116 [] c = "x" -> 120
      [] OTHER -> 95

\* String.prototype.toLowerCase, one character
LowerChar(c) ==
    CASE c = "A" -> "a" [] c = "E" -> "e" [] c = "H" -> "h"
      [] c = "P" -> "p" [] c = "T" -> "t"
      [] OTHER -> c

toLowerCase(cs) == [i \in 1..Len(cs) |-> LowerChar(cs[i])]

RECURSIVE TrimStart(_)
TrimStart(cs) ==
    IF cs # <<>> /\ Head(cs) = " " THEN TrimStart(Tail(cs)) ELSE cs

RECURSIVE TrimEnd(_)
TrimEnd(cs) ==
    IF cs # <<>> /\ cs[Len(cs)] = " "
    THEN TrimEnd(SubSeq(cs, 1, Len(cs) - 1)) ELSE cs

\* String.prototype.trim
trim(cs) == TrimEnd(TrimStart(cs))

RECURSIVE DigitsValue(_)
DigitsValue(cs) ==
    IF cs = <<>> THEN 0
    ELSE 10 * DigitsValue(SubSeq(cs, 1, Len(cs) - 1)) + DigitVal(cs[Len(cs)])

AllDigits(cs) == \A i \in 1..Len(cs) : IsDigit(cs[i])

\* ToNumber of a string: blank is 0, a run of digits its value, else NaN
\* (signs, fractions and exponents do not occur in the modelled strings)
StringToNumber(cs) ==
    LET body == trim(cs)
    IN IF body = <<>> THEN Num(0)
       ELSE IF AllDigits(body) THEN Num(DigitsValue(body))
       ELSE NaN

\* Number(v)
Number(v) ==
    CASE v.t = "num" -> v
      [] v.t = "null" -> Num(0)
      [] v.t = "str" -> StringToNumber(v.s)
      [] OTHER -> NaN

isNaN(v) == Number(v).t = "nan"

RECURSIVE DigitsOf(_)
DigitsOf(k) ==
    IF k < 10 THEN <<Digits[k + 1]>>
    ELSE DigitsOf(k \div 10) \o <<Digits[(k % 10) + 1]>>

\* String(v), for the non-negative integers and strings that are ids
String(v) ==
    CASE v.t = "str" -> v.s
      [] v.t = "num" -> DigitsOf(v.n)
      [] v.t = "null" -> <<"n", "u", "l", "l">>
      [] v.t = "nan" -> <<"N", "a", "N">>
      [] OTHER -> <<"u", "n", "d", "e", "f", "i", "n", "e", "d">>

\* a < b on strings: code-unit lexicographic order
RECURSIVE StringLess(_, _)
StringLess(a, b) ==
    IF b = <<>> THEN FALSE
    ELSE IF a = <<>> THEN TRUE
    ELSE IF CharCode(Head(a)) # CharCode(Head(b))
         THEN CharCode(Head(a)) < CharCode(Head(b))
    ELSE StringLess(Tail(a), Tail(b))

\* a < b (abstract relational comparison); FALSE when undefined (NaN)
JsLess(a, b) ==
    IF a.t = "str" /\ b.t = "str" THEN StringLess(a.s, b.s)
    ELSE LET x == Number(a)
             y == Number(b)
         IN x.t = "num" /\ y.t = "num" /\ x.n < y.n

\* a >= b
JsGE(a, b) ==
    IF a.t = "str" /\ b.t = "str" THEN ~StringLess(a.s, b.s)
    ELSE LET x == Number(a)
             y == Number(b)
         IN x.t = "num" /\ y.t = "num" /\ x.n >= y.n

\* a <= b
JsLE(a, b) ==
    IF a.t = "str" /\ b.t = "str" THEN ~StringLess(b.s, a.s)
    ELSE LET x == Number(a)
             y == Number(b)
         IN x.t = "num" /\ y.t = "num" /\ x.n <= y.n

\* a - b
JsSub(a, b) ==
    LET x == Number(a)
        y == Number(b)
    IN IF x.t = "num" /\ y.t = "num" THEN Num(x.n - y.n) ELSE NaN

\* a !== b
JsStrictNe(a, b) == a.t = "nan" \/ b.t = "nan" \/ a # b


\* parseInt(s): leading blanks, an optional sign, then the longest run of
\* digits; NaN when there is no digit
RECURSIVE DigitPrefix(_)
DigitPrefix(cs) ==
    IF cs # <<>> /\ IsDigit(Head(cs)) THEN <<Head(cs)>> \o DigitPrefix(Tail(cs))
    ELSE <<>>

parseInt(cs) ==
    LET body == TrimStart(cs)
        neg == body # <<>> /\ Head(body) = "-"
        run == DigitPrefix(IF neg THEN Tail(body) ELSE body)
    IN IF run = <<>> THEN NaN
       ELSE Num(IF neg THEN 0 - DigitsValue(run) ELSE DigitsValue(run))

(***************************************************************************)
(* The catalog: the global `parks` array handed to the page by the server. *)
(* displayRank = 0 stands for a record without a displayRank property.     *)
(***************************************************************************)
ArrayOf(list) == [t |-> "arr", a |-> list]

NoArray(tag) == [t |-> tag, a |-> <<>>]

\* p[dataKey]
GetField(p, key) ==
    CASE key = "quality" -> p.quality
      [] key = "quantity_variety" -> p.quantity_variety
      [] key = "safety" -> p.safety
      [] key = "accessibility" -> p.accessibility
      [] key = "recreation" -> p.recreation
      [] OTHER -> Undef

Park(i, q, f) ==
    [site_id |-> IF i % 2 = 1 THEN Num(i) ELSE Str(DigitsOf(i)),
     name |-> <<"P">> \o DigitsOf(i),
     lat |-> (i - 1) % (MaxCoord + 1),
     lon |-> ((i - 1) \div (MaxCoord + 1)) % (MaxCoord + 1),
     recreation |-> Num(1),
     quality |-> q,
     safety |-> Num(1),
     accessibility |-> Num(1),
     quantity_variety |-> IF i = 1 THEN Null ELSE Num(i % 2),
     facilities |-> f,
     displayRank |-> 0]

\* the values a metric field of a record can hold
MetricValues ==
    {Num(k) : k \in 0..MaxScore} \cup {Null, Undef, Str(<<>>), Str(<<"x">>)}

(***************************************************************************)
(* applyRanking, the deferred computation (ranking.js 140-176).  Records   *)
(* are objects shared with `parks`: a result is a sequence of indices into *)
(* `parks`.                                                                *)
(***************************************************************************)
\* type.split('_')[k-1]
Segment(type, k) == IF k <= Len(type) THEN type[k] ELSE "undefined"

DataKey(type) ==
    IF Segment(type, 1) = "quantity" THEN "quantity_variety"
    ELSE Segment(type, 1)

\* p => p[dataKey] !== null && !isNaN(Number(p[dataKey]))
IsValid(p, dataKey) ==
    JsStrictNe(GetField(p, dataKey), Null) /\ ~isNaN(GetField(p, dataKey))

\* Array.prototype.filter over record references: keep[i] is the callback's
\* answer for parks[i]
RECURSIVE FilterIdx(_, _)
FilterIdx(idx, keep) ==
    IF idx = <<>> THEN <<>>
    ELSE (IF keep[Head(idx)] THEN <<Head(idx)>> ELSE <<>>)
         \o FilterIdx(Tail(idx), keep)

\* (a,b) => order === 'highest' ? b[dataKey] - a[dataKey] : a[dataKey] - b[dataKey]
Comparator(a, b, dataKey, order) ==
    IF order = "highest" THEN JsSub(GetField(b, dataKey), GetField(a, dataKey))
    ELSE JsSub(GetField(a, dataKey), GetField(b, dataKey))

\* InsertSorted with x put in front of the elements that compare equal to it
RECURSIVE InsertSorted_Unstable(_, _, _, _, _)
InsertSorted_Unstable(catalog, sorted, x, dataKey, order) ==
    IF sorted = <<>> THEN <<x>>
    ELSE LET c == Comparator(catalog[sorted[Len(sorted)]], catalog[x], dataKey, order)
         IN IF c.t = "num" /\ c.n >= 0
            THEN InsertSorted_Unstable(catalog, SubSeq(sorted, 1, Len(sorted) - 1), x,
                                       dataKey, order)
                 \o <<sorted[Len(sorted)]>>
            ELSE sorted \o <<x>>

\* Array.prototype.sort is stable: x goes behind every element that does
\* not compare greater than it
RECURSIVE InsertSorted(_, _, _, _, _)
InsertSorted(catalog, sorted, x, dataKey, order) ==
    IF sorted = <<>> THEN <<x>>
    ELSE LET c == Comparator(catalog[sorted[Len(sorted)]], catalog[x], dataKey, order)
         IN IF c.t = "num" /\ c.n > 0
            THEN InsertSorted(catalog, SubSeq(sorted, 1, Len(sorted) - 1), x, dataKey, order)
                 \o <<sorted[Len(sorted)]>>
            ELSE sorted \o <<x>>

RECURSIVE SortIdx(_, _, _, _)
SortIdx(catalog, idx, dataKey, order) ==
    IF idx = <<>> THEN <<>>
    ELSE InsertSorted(catalog,
                      SortIdx(catalog, SubSeq(idx, 1, Len(idx) - 1), dataKey, order),
                      idx[Len(idx)], dataKey, order)

\* valid = parks.filter(...); valid.sort(...)
ValidSorted(catalog, dataKey, order) ==
    SortIdx(catalog,
            FilterIdx([i \in 1..Len(catalog) |-> i],
                      [i \in 1..Len(catalog) |-> IsValid(catalog[i], dataKey)]),
            dataKey, order)

\* p => order === 'highest' ? p[dataKey] >= cutoffVal : p[dataKey] <= cutoffVal
WithinCutoff(p, cutoffVal, dataKey, order) ==
    IF order = "highest" THEN JsGE(GetField(p, dataKey), cutoffVal)
    ELSE JsLE(GetField(p, dataKey), cutoffVal)

\* topResults (ranking.js 149-158)
TopResults(catalog, dataKey, order, num) ==
    LET valid == ValidSorted(catalog, dataKey, order)
    IN IF Len(valid) <= num THEN valid
       ELSE LET cutoffVal == GetField(catalog[valid[num]], dataKey)
            IN FilterIdx(valid,
                         [i \in 1..Len(catalog) |->
                             WithinCutoff(catalog[i], cutoffVal, dataKey, order)])

\* CurrentRank with `currentRank = currentRank + 1` at a change of value
RECURSIVE CurrentRank_Dense(_, _, _, _)
CurrentRank_Dense(catalog, top, dataKey, k) ==
    IF k = 1 THEN 1
    ELSE IF JsStrictNe(GetField(catalog[top[k]], dataKey),
                       GetField(catalog[top[k - 1]], dataKey))
         THEN CurrentRank_Dense(catalog, top, dataKey, k - 1) + 1
    ELSE CurrentRank_Dense(catalog, top, dataKey, k - 1)

\* currentRank after the forEach loop has handled position k (ranking.js 170-176)
RECURSIVE CurrentRank(_, _, _, _)
CurrentRank(catalog, top, dataKey, k) ==
    IF k = 1 THEN 1
    ELSE IF JsStrictNe(GetField(catalog[top[k]], dataKey),
                       GetField(catalog[top[k - 1]], dataKey))
         THEN k
    ELSE CurrentRank(catalog, top, dataKey, k - 1)

\* AssignRanks with the ranked records written back to the front of `parks`
AssignRanks_Reordered(catalog, top, dataKey) ==
    LET rest == FilterIdx([i \in 1..Len(catalog) |-> i],
                          [i \in 1..Len(catalog) |-> \A k \in 1..Len(top) : top[k] # i])
        order == top \o rest
    IN [i \in 1..Len(catalog) |->
          IF i <= Len(top)
          THEN [catalog[order[i]] EXCEPT !.displayRank = i]
          ELSE catalog[order[i]]]

\* AssignRanks which keeps the rank an earlier ranking gave a record
AssignRanks_KeepExisting(catalog, top, dataKey) ==
    [i \in 1..Len(catalog) |->
        IF (\E k \in 1..Len(top) : top[k] = i) /\ catalog[i].displayRank = 0
        THEN [catalog[i] EXCEPT !.displayRank =
                 CurrentRank(catalog, top, dataKey, CHOOSE k \in 1..Len(top) : top[k] = i)]
        ELSE catalog[i]]

\* p.displayRank = currentRank, written on the catalog records themselves
AssignRanks(catalog, top, dataKey) ==
    [i \in 1..Len(catalog) |->
        IF \E k \in 1..Len(top) : top[k] = i
        THEN [catalog[i] EXCEPT !.displayRank =
                 CurrentRank(catalog, top, dataKey, CHOOSE k \in 1..Len(top) : top[k] = i)]
        ELSE catalog[i]]


\* hasTies of showTieModal in ranking.js (52-53): new Set(scores).size !==
\* scores.length; a Set holds a number and a string apart
HasTiesByScore(catalog, top, dataKey) ==
    Cardinality({GetField(catalog[top[k]], dataKey) : k \in 1..Len(top)}) # Len(top)

\* hasTies of showTieModal in ui.js (196-202): two neighbours with the same
\* displayRank
HasTiesByRank(catalog, top) ==
    \E i \in 2..Len(top) : catalog[top[i]].displayRank = catalog[top[i - 1]].displayRank

(***************************************************************************)
(* Global state (config.js 77-83, main.js 13-16) and the closures of the   *)
(* pending callbacks.                                                      *)
(***************************************************************************)
\* the catalog array
VARIABLE parks
\* window.currentExportData
VARIABLE currentExportData
\* config.js userMarker
VARIABLE userMarker
\* config.js searchCircle
VARIABLE searchCircle
\* config.js nearestMode
VARIABLE nearestMode
\* the loading overlay is shown
VARIABLE loader
\* closures of the pending setTimeout(..., 400) of applyRanking
VARIABLE rankTimers
\* locals of the deferred ranking computation, in the state it leaves behind
VARIABLE rankRun
\* closures of the applyLocationSearch calls awaiting a response
VARIABLE calls
\* locals of the applyLocationSearch call that handled its search answer or
\* failed, in the state it leaves behind
VARIABLE searchRun
\* config.js parkMarkers: icon and permanent tooltip of the marker of each
\* key, a key being the index of the record that created the marker
VARIABLE parkMarkers
\* config.js animationTimeouts: the pending reveal timers, one batch for
\* each deferred ranking computation that set them
VARIABLE animationTimeouts
\* the tie modal is shown
VARIABLE tieModal
\* locals of exportParksToCSV, in the state it leaves behind
VARIABLE exportRun
\* a user-location marker is on the map which `userMarker` no longer
\* references: nearby.js 146 assigns the new marker without removing the
\* one the variable held
VARIABLE strayUserMarker

(***************************************************************************)
(* State of the network analysis page (network_analysis.js 25-42).         *)
(***************************************************************************)
\* currentMode: "walk", "drive", "bus" or "null"
VARIABLE currentMode
\* currentLegend: the legend control the variable references, with the mode
\* it was drawn for and whether it is on the map; "null" before the first
VARIABLE currentLegend
\* the number of legend controls on the map
VARIABLE legends
\* the modes whose button carries its active class
VARIABLE activeButtons
\* the layer groups: the site ids of the features in each
VARIABLE layers
\* the value of #parkDropdown: 0 for "all", else a site id
VARIABLE parkDropdown
\* dataStore: the four collections, null until the answers to the four
\* requests have arrived; `stops` and `cycles` are the sites whose bus
\* feature lists bus stops and cycle parks
VARIABLE dataStore
\* the argument of switchLayer, in the state it leaves behind
VARIABLE switchRun

networkVars == <<currentMode, currentLegend, legends, activeButtons, layers,
                 parkDropdown, dataStore, switchRun>>

interactionVars ==
    <<parks, currentExportData, userMarker, searchCircle, nearestMode,
      loader, rankTimers, rankRun, calls, searchRun, parkMarkers,
      animationTimeouts, tieModal, exportRun, strayUserMarker>>

vars == <<interactionVars, networkVars>>

\* an element of a result array: a catalog record (by reference) or a
\* match object of the search response
ParkItem(i) == [src |-> "park", i |-> i, site_id |-> Null, distance |-> 0]

MatchItem(m) == [src |-> "match", i |-> 0, site_id |-> m.site_id, distance |-> m.distance]

ParkItems(idx) == [k \in 1..Len(idx) |-> ParkItem(idx[k])]

NoLayer == [on |-> FALSE, lat |-> 0, lon |-> 0, radius |-> 0]

Layer(lat, lon, radius) == [on |-> TRUE, lat |-> lat, lon |-> lon, radius |-> radius]

\* `superseded` is not a local of the callback: it records that
\* clearAllInputs or a suggestion click ran between the call and the callback;
\* `tieNote` is the display of #tie-modal-note as each of the two global
\* functions named showTieModal sets it, the one of the script loaded last
\* being the one called
NoRankRun ==
    [ran |-> FALSE, dataKey |-> "", order |-> "", numInput |-> <<>>, num |-> 0,
     superseded |-> FALSE, toast |-> "", modal |-> "", topResults |-> <<>>,
     tieNote |-> [ranking |-> FALSE, ui |-> FALSE]]

\* `overtaken` is not a local of the call: it records that the answer of a
\* call issued later was handled before this one; `failed` names the
\* request whose failure ended the call; `modal` names the modal a rejected
\* click opened, with the inputs of that click
NoSearchRun ==
    [ran |-> FALSE, failed |-> "", modal |-> "", postcodeInput |-> <<>>,
     selectedFacilities |-> {}, sentNearest |-> FALSE,
     nearest |-> FALSE, overtaken |-> FALSE, distance |-> 0, userLat |-> 0,
     userLon |-> 0, response |-> <<>>, validMatches |-> <<>>]

NoExportRun == [ran |-> FALSE, file |-> FALSE, fullData |-> <<>>]

\* the locals of a finished callback are gone with the next step
Forget ==
    /\ rankRun' = NoRankRun
    /\ searchRun' = NoSearchRun
    /\ exportRun' = NoExportRun

RemoveAt(seq, k) == SubSeq(seq, 1, k - 1) \o SubSeq(seq, k + 1, Len(seq))

\* a marker as main.js creates it, and as resetMarkers leaves it
BlackMarker == [icon |-> "black", tooltip |-> 0]

\* parkMarkers[p.name.toLowerCase()]: the marker is the one created by the
\* last record with that key (main.js 180)
MarkerKey(catalog, i) ==
    CHOOSE j \in 1..Len(catalog) :
        /\ toLowerCase(catalog[j].name) = toLowerCase(catalog[i].name)
        /\ \A h \in (j + 1)..Len(catalog) :
              toLowerCase(catalog[h].name) # toLowerCase(catalog[i].name)

\* config.js rankColorMap
rankColorMap ==
    <<"gold", "orange", "red", "violet", "blue", "green", "yellow", "grey",
      "purple", "pink", "brown", "teal", "lime", "indigo", "coral", "navy",
      "maroon", "olive", "cyan", "magenta">>

\* rankColorMap[colorIndex] of the reveal timer (ranking.js 191-198)
ColorKey(displayRank) ==
    LET colorIndex == displayRank - 1
    IN rankColorMap[(IF colorIndex >= Len(rankColorMap)
                     THEN colorIndex % Len(rankColorMap) ELSE colorIndex) + 1]

\* resetMarkers (map.js 66-79): pending reveal timers are cleared, every
\* marker gets the black icon and loses its tooltip
ResetMarkers ==
    /\ animationTimeouts' = <<>>
    /\ parkMarkers' = [j \in DOMAIN parkMarkers |-> BlackMarker]

\* facility names
Tap == <<"T", "a", "p">>

Path == <<"P", "a", "t", "h">>

NoLegend == [mode |-> "null", on |-> FALSE]

NoLayers == [areas |-> {}, points |-> {}, busPolygons |-> {}, busStops |-> {},
             cycleStops |-> {}]

NoSwitchRun == [ran |-> FALSE, mode |-> "null"]

\* network_analysis.js 25-42, with the data the server will answer
NetworkStart(stops, cycles) ==
    /\ currentMode = "null"
    /\ currentLegend = NoLegend
    /\ legends = 0
    /\ activeButtons = {}
    /\ layers = NoLayers
    /\ parkDropdown = 0
    /\ dataStore = [loaded |-> FALSE, stops |-> stops, cycles |-> cycles]
    /\ switchRun = NoSwitchRun

\* main.js 163-166 and config.js 77-83, for the catalog `catalog`
InteractionStart(catalog) ==
    /\ parks = catalog
    /\ currentExportData = ParkItems([i \in 1..Len(catalog) |-> i])
    /\ userMarker = NoLayer
    /\ searchCircle = NoLayer
    /\ nearestMode = FALSE
    /\ loader = FALSE
    /\ rankTimers = <<>>
    /\ rankRun = NoRankRun
    /\ calls = <<>>
    /\ searchRun = NoSearchRun
    /\ parkMarkers = [j \in 1..Len(catalog) |-> BlackMarker]
    /\ animationTimeouts = <<>>
    /\ tieModal = FALSE
    /\ exportRun = NoExportRun
    /\ strayUserMarker = FALSE

\* the interaction map, the network analysis page left as loaded
InitWith(catalog) == InteractionStart(catalog) /\ NetworkStart({}, {})

\* catalogs with every combination of values of the quality metric; the
\* catalog is parsed JSON, where a field that is present is never undefined
RankingCatalogs ==
    {[i \in 1..NParks |-> Park(i, q[i], ArrayOf(<<Tap>>))] :
        q \in [1..NParks -> MetricValues \ {Undef}]}

\* values of the rank-type select, split at '_'; <<>> is the empty value
RankTypes == {<<>>, <<"quality", "highest">>, <<"quantity", "lowest">>}

\* values of the rank-number input
RankNumbers == {<<>>, <<"0">>, <<"2", ".", "5">>, <<"x">>}

(***************************************************************************)
(* applyRanking (ranking.js 110-255)                                       *)
(***************************************************************************)
\* the modal a rejected click opens (ranking.js 116, 121)
RejectedRanking(modal) ==
    /\ rankRun' = [NoRankRun EXCEPT !.modal = modal]
    /\ searchRun' = NoSearchRun
    /\ exportRun' = NoExportRun

\* ApplyRanking with the markers and layers cleared before the number is
\* validated
ApplyRanking_ResetFirst(type, numInput) ==
    LET num == parseInt(numInput)
    IN IF type = <<>>
       THEN /\ RejectedRanking("showSelectRankModal")
            /\ UNCHANGED <<networkVars, strayUserMarker, parks, currentExportData, userMarker, searchCircle,
                           nearestMode, loader, rankTimers, calls, parkMarkers,
                           animationTimeouts, tieModal>>
       ELSE IF numInput = <<>> \/ JsLess(num, Num(1)) \/ isNaN(num)
       THEN /\ ResetMarkers
            /\ userMarker' = NoLayer
            /\ searchCircle' = NoLayer
            /\ currentExportData' = <<>>
            /\ RejectedRanking("showEnterRankNumModal")
            /\ UNCHANGED <<networkVars, strayUserMarker, parks, nearestMode, loader, rankTimers, calls, tieModal>>
       ELSE /\ ResetMarkers
            /\ userMarker' = NoLayer
            /\ searchCircle' = NoLayer
            /\ loader' = TRUE
            /\ rankTimers' = Append(rankTimers,
                    [type |-> type, numInput |-> numInput, num |-> num.n,
                     superseded |-> FALSE])
            /\ Forget
            /\ UNCHANGED <<networkVars, strayUserMarker, parks, currentExportData, nearestMode, calls, tieModal>>

\* the synchronous part: validation, reset, setTimeout
ApplyRanking(type, numInput) ==
    LET num == parseInt(numInput)
    IN IF type = <<>>
       THEN /\ RejectedRanking("showSelectRankModal")
            /\ UNCHANGED <<networkVars, strayUserMarker, parks, currentExportData, userMarker, searchCircle,
                           nearestMode, loader, rankTimers, calls, parkMarkers,
                           animationTimeouts, tieModal>>
       ELSE IF numInput = <<>> \/ JsLess(num, Num(1)) \/ isNaN(num)
       THEN /\ currentExportData' = <<>>
            /\ RejectedRanking("showEnterRankNumModal")
            /\ UNCHANGED <<networkVars, strayUserMarker, parks, userMarker, searchCircle, nearestMode, loader,
                           rankTimers, calls, parkMarkers, animationTimeouts,
                           tieModal>>
       ELSE /\ ResetMarkers
            /\ userMarker' = NoLayer
            /\ searchCircle' = NoLayer
            /\ loader' = TRUE
            /\ rankTimers' = Append(rankTimers,
                    [type |-> type, numInput |-> numInput, num |-> num.n,
                     superseded |-> FALSE])
            /\ Forget
            /\ UNCHANGED <<networkVars, strayUserMarker, parks, currentExportData, nearestMode, calls, tieModal>>

\* every reveal timer of delay 0 has fired: such a timer is due before any
\* timer that was set earlier and is still pending
RevealsStarted == \A b \in 1..Len(animationTimeouts) : animationTimeouts[b].started

\* the deferred callback (ranking.js 140-254); timers of equal delay fire
\* in the order they were set
RankTimerFire ==
    /\ rankTimers # <<>>
    /\ RevealsStarted
    /\ LET c == Head(rankTimers)
           dataKey == DataKey(c.type)
           order == Segment(c.type, 2)
           topResults == TopResults(parks, dataKey, order, c.num)
       IN /\ rankTimers' = Tail(rankTimers)
          /\ currentExportData' = ParkItems(topResults)
          /\ loader' = FALSE
          /\ IF topResults = <<>>
             THEN /\ ResetMarkers
                  /\ UNCHANGED <<parks, tieModal>>
             ELSE /\ parks' = AssignRanks(parks, topResults, dataKey)
                  /\ tieModal' = TRUE
                  /\ animationTimeouts' =
                        Append(animationTimeouts, [idx |-> topResults, started |-> FALSE])
                  /\ UNCHANGED parkMarkers
          /\ rankRun' = [ran |-> TRUE, dataKey |-> dataKey, order |-> order,
                         numInput |-> c.numInput, num |-> c.num,
                         superseded |-> c.superseded,
                         toast |-> IF topResults = <<>> THEN "No data." ELSE "",
                         modal |-> "",
                         topResults |-> topResults,
                         tieNote |-> IF topResults = <<>>
                                     THEN [ranking |-> FALSE, ui |-> FALSE]
                                     ELSE LET ranked == AssignRanks(parks, topResults, dataKey)
                                          IN [ranking |-> HasTiesByScore(ranked, topResults, dataKey),
                                              ui |-> HasTiesByRank(ranked, topResults)]]
    /\ searchRun' = NoSearchRun
    /\ exportRun' = NoExportRun
    /\ UNCHANGED <<networkVars, strayUserMarker, userMarker, searchCircle, nearestMode, calls>>

\* a reveal timer fires (ranking.js 189-247): the timers of one batch fire
\* in the order of their delays, and a timer of delay 0 before any other
RevealTimerFire(b) ==
    /\ b \in 1..Len(animationTimeouts)
    /\ ~animationTimeouts[b].started \/ RevealsStarted
    /\ LET i == Head(animationTimeouts[b].idx)
           rest == Tail(animationTimeouts[b].idx)
       IN /\ parkMarkers' = [parkMarkers EXCEPT ![MarkerKey(parks, i)] =
                                [icon |-> ColorKey(parks[i].displayRank),
                                 tooltip |-> parks[i].displayRank]]
          /\ animationTimeouts' =
                IF rest = <<>> THEN RemoveAt(animationTimeouts, b)
                ELSE [animationTimeouts EXCEPT ![b] = [idx |-> rest, started |-> TRUE]]
    /\ Forget
    /\ UNCHANGED <<networkVars, strayUserMarker, parks, currentExportData, userMarker, searchCircle, nearestMode,
                   loader, rankTimers, calls, tieModal>>

(***************************************************************************)
(* setSearchMode (nearby.js 16-36), clearAllInputs (ui.js 132-173) and the *)
(* click on a name suggestion (search_name.js 33-83)                       *)
(***************************************************************************)
SetSearchMode(isNearest) ==
    /\ nearestMode' = isNearest
    /\ Forget
    /\ UNCHANGED <<networkVars, strayUserMarker, parks, currentExportData, userMarker, searchCircle, loader,
                   rankTimers, calls, parkMarkers, animationTimeouts, tieModal>>

\* the pending deferred computations, marked as superseded
Superseded(timers) == [k \in 1..Len(timers) |-> [timers[k] EXCEPT !.superseded = TRUE]]

ClearAllInputs ==
    /\ nearestMode' = FALSE
    /\ ResetMarkers
    /\ currentExportData' = ParkItems([i \in 1..Len(parks) |-> i])
    /\ userMarker' = NoLayer
    /\ searchCircle' = NoLayer
    /\ tieModal' = FALSE
    /\ rankTimers' = Superseded(rankTimers)
    /\ Forget
    /\ UNCHANGED <<networkVars, strayUserMarker, parks, loader, calls>>

\* `window.icons` is undefined, `icons` being a const of config.js: the
\* marker of the selected park keeps the icon resetMarkers gave it
SelectSuggestion(i) ==
    /\ ResetMarkers
    /\ tieModal' = FALSE
    /\ currentExportData' = <<ParkItem(i)>>
    /\ userMarker' = NoLayer
    /\ searchCircle' = NoLayer
    /\ rankTimers' = Superseded(rankTimers)
    /\ Forget
    /\ UNCHANGED <<networkVars, strayUserMarker, parks, nearestMode, loader, calls>>

(***************************************************************************)
(* applyLocationSearch (nearby.js 98-247)                                  *)
(***************************************************************************)
\* /^[A-Z]{1,2}\d[A-Z\d]? ?\d[A-Z]{2}$/i .test(cs)
PostcodeRegexTest(cs) ==
    \E a \in 1..2, b \in 0..1, c \in 0..1 :
        /\ Len(cs) = a + b + c + 4
        /\ \A i \in 1..a : IsLetter(cs[i])
        /\ IsDigit(cs[a + 1])
        /\ b = 1 => (IsLetter(cs[a + 2]) \/ IsDigit(cs[a + 2]))
        /\ c = 1 => cs[a + b + 2] = " "
        /\ IsDigit(cs[a + b + c + 2])
        /\ IsLetter(cs[a + b + c + 3])
        /\ IsLetter(cs[a + b + c + 4])

\* the radius used when the distance input is empty (nearby.js 103)
DefaultDistance == 5

\* parseFloat of the distance input: whole numbers of kilometres, with sign
parseFloat(cs) == parseInt(cs)

\* rawDistance ? parseFloat(rawDistance) : 5.0
DistanceOf(rawDistance) ==
    IF rawDistance = <<>> THEN Num(DefaultDistance) ELSE parseFloat(rawDistance)

\* FindPark with p.site_id === id
FindPark_Strict(catalog, id) ==
    IF \E i \in 1..Len(catalog) : ~JsStrictNe(catalog[i].site_id, id)
    THEN CHOOSE i \in 1..Len(catalog) :
            /\ ~JsStrictNe(catalog[i].site_id, id)
            /\ \A j \in 1..(i - 1) : JsStrictNe(catalog[j].site_id, id)
    ELSE 0

\* parks.find(p => String(p.site_id) === String(id)): index of the first
\* such record, 0 when there is none
FindPark(catalog, id) ==
    IF \E i \in 1..Len(catalog) : String(catalog[i].site_id) = String(id)
    THEN CHOOSE i \in 1..Len(catalog) :
            /\ String(catalog[i].site_id) = String(id)
            /\ \A j \in 1..(i - 1) : String(catalog[j].site_id) # String(id)
    ELSE 0

\* fullPark.facilities.some(avail => avail.toLowerCase().trim() === reqNorm)
FacilityAvailable(list, req) ==
    LET reqNorm == trim(toLowerCase(req))
    IN \E k \in 1..Len(list) : trim(toLowerCase(list[k])) = reqNorm

\* MatchKept with `some` in place of `every`
MatchKept_Some(catalog, match, selectedFacilities) ==
    LET i == FindPark(catalog, match.site_id)
    IN /\ i # 0
       /\ catalog[i].facilities.t = "arr"
       /\ \E req \in selectedFacilities :
             FacilityAvailable(catalog[i].facilities.a, req)

\* MatchKept without toLowerCase
MatchKept_NoLower(catalog, match, selectedFacilities) ==
    LET i == FindPark(catalog, match.site_id)
    IN /\ i # 0
       /\ catalog[i].facilities.t = "arr"
       /\ \A req \in selectedFacilities :
             \E k \in 1..Len(catalog[i].facilities.a) :
                 trim(catalog[i].facilities.a[k]) = trim(req)

\* MatchKept without trim
MatchKept_NoTrim(catalog, match, selectedFacilities) ==
    LET i == FindPark(catalog, match.site_id)
    IN /\ i # 0
       /\ catalog[i].facilities.t = "arr"
       /\ \A req \in selectedFacilities :
             \E k \in 1..Len(catalog[i].facilities.a) :
                 toLowerCase(catalog[i].facilities.a[k]) = toLowerCase(req)

\* the callback of result.parks.filter (nearby.js 166-173)
MatchKept(catalog, match, selectedFacilities) ==
    LET i == FindPark(catalog, match.site_id)
    IN /\ i # 0
       /\ catalog[i].facilities.t = "arr"
       /\ \A req \in selectedFacilities :
             FacilityAvailable(catalog[i].facilities.a, req)

RECURSIVE FilterMatches(_, _, _)
FilterMatches(catalog, matches, selectedFacilities) ==
    IF matches = <<>> THEN <<>>
    ELSE (IF MatchKept(catalog, Head(matches), selectedFacilities)
          THEN <<Head(matches)>> ELSE <<>>)
         \o FilterMatches(catalog, Tail(matches), selectedFacilities)

\* ValidMatches without the cut to one result
ValidMatches_NoCut(catalog, matches, selectedFacilities, nearest) ==
    FilterMatches(catalog, matches, selectedFacilities)

\* ValidMatches with the cut to one result in either mode
ValidMatches_AlwaysCut(catalog, matches, selectedFacilities, nearest) ==
    LET kept == FilterMatches(catalog, matches, selectedFacilities)
    IN IF Len(kept) > 0 THEN <<kept[1]>> ELSE kept

\* validMatches after the final selection (nearby.js 166-179)
ValidMatches(catalog, matches, selectedFacilities, nearest) ==
    LET kept == FilterMatches(catalog, matches, selectedFacilities)
    IN IF nearest /\ Len(kept) > 0 THEN <<kept[1]>> ELSE kept

\* Rejection with the facility selection checked first
Rejection_FacilitiesFirst(postcode, selectedFacilities) ==
    IF selectedFacilities = {} THEN "showSelectFacilityModal"
    ELSE IF postcode = <<>> THEN "showEnterPostcodeModal"
    ELSE IF ~PostcodeRegexTest(postcode) THEN "showInvalidPostcodeModal"
    ELSE ""

\* the three checks of nearby.js 110-120: the modal the first failing one
\* opens, "" when the inputs pass
Rejection(postcode, selectedFacilities) ==
    IF postcode = <<>> THEN "showEnterPostcodeModal"
    ELSE IF ~PostcodeRegexTest(postcode) THEN "showInvalidPostcodeModal"
    ELSE IF selectedFacilities = {} THEN "showSelectFacilityModal"
    ELSE ""

\* the synchronous part: validation, loader, reset, the geocoding request
ApplyLocationSearch(postcodeInput, rawDistance, selectedFacilities) ==
    LET postcode == trim(postcodeInput)
        modal == Rejection(postcode, selectedFacilities)
    IN IF modal # ""
       THEN /\ searchRun' = [NoSearchRun EXCEPT !.modal = modal,
                                                !.postcodeInput = postcodeInput,
                                                !.selectedFacilities = selectedFacilities]
            /\ rankRun' = NoRankRun
            /\ exportRun' = NoExportRun
            /\ UNCHANGED <<networkVars, strayUserMarker, parks, currentExportData, userMarker, searchCircle,
                           nearestMode, loader, rankTimers, calls, parkMarkers,
                           animationTimeouts, tieModal>>
       ELSE /\ loader' = TRUE
            /\ ResetMarkers
            /\ userMarker' = NoLayer
            /\ searchCircle' = NoLayer
            /\ calls' = Append(calls,
                    [pc |-> "geocode", postcode |-> postcode,
                     selectedFacilities |-> selectedFacilities,
                     distance |-> DistanceOf(rawDistance), userLat |-> 0,
                     userLon |-> 0, sentNearest |-> FALSE, overtaken |-> FALSE])
            /\ Forget
            /\ UNCHANGED <<networkVars, strayUserMarker, parks, currentExportData, nearestMode, rankTimers, tieModal>>

\* CallFails without the finally block
CallFails_NoFinally(k, request) ==
    /\ calls' = RemoveAt(calls, k)
    /\ searchRun' = [NoSearchRun EXCEPT !.failed = request]
    /\ rankRun' = NoRankRun
    /\ exportRun' = NoExportRun
    /\ UNCHANGED <<networkVars, strayUserMarker, parks, currentExportData, userMarker, searchCircle,
                   loader, nearestMode, rankTimers, parkMarkers, animationTimeouts,
                   tieModal>>

\* the catch and finally blocks (nearby.js 238-246), after the failure of
\* the request `request`
CallFails(k, request) ==
    /\ calls' = RemoveAt(calls, k)
    /\ loader' = FALSE
    /\ searchRun' = [NoSearchRun EXCEPT !.failed = request]
    /\ rankRun' = NoRankRun
    /\ exportRun' = NoExportRun
    /\ UNCHANGED <<networkVars, strayUserMarker, parks, currentExportData, userMarker, searchCircle,
                   nearestMode, rankTimers, parkMarkers, animationTimeouts, tieModal>>

\* GeocodeFails with the search requested from the origin (0, 0)
GeocodeFails_Fallback(k) ==
    /\ k \in 1..Len(calls)
    /\ calls[k].pc = "geocode"
    /\ calls' = [calls EXCEPT ![k] =
                    [@ EXCEPT !.pc = "search", !.sentNearest = nearestMode]]
    /\ searchRun' = [NoSearchRun EXCEPT !.failed = "geocode"]
    /\ rankRun' = NoRankRun
    /\ exportRun' = NoExportRun
    /\ UNCHANGED <<networkVars, strayUserMarker, parks, currentExportData, userMarker, searchCircle, loader,
                   nearestMode, rankTimers, parkMarkers, animationTimeouts, tieModal>>

\* the geocoding request rejects, is not JSON or finds no location
GeocodeFails(k) ==
    /\ k \in 1..Len(calls)
    /\ calls[k].pc = "geocode"
    /\ CallFails(k, "geocode")

\* the geocoding answer arrives: user marker, then the search request
\* (nearby.js 143-161)
GeocodeResolves(k, lat, lon) ==
    /\ k \in 1..Len(calls)
    /\ calls[k].pc = "geocode"
    /\ userMarker' = Layer(lat, lon, 0)
    /\ strayUserMarker' = (strayUserMarker \/ userMarker.on)
    /\ calls' = [calls EXCEPT ![k] =
                    [@ EXCEPT !.pc = "search", !.userLat = lat, !.userLon = lon,
                              !.sentNearest = nearestMode]]
    /\ Forget
    /\ UNCHANGED <<networkVars, parks, currentExportData, searchCircle, nearestMode,
                   loader, rankTimers, parkMarkers, animationTimeouts, tieModal>>

\* the search request rejects or its answer has no `parks` list
SearchFails(k) ==
    /\ k \in 1..Len(calls)
    /\ calls[k].pc = "search"
    /\ CallFails(k, "search")

\* the markers after validMatches.forEach (nearby.js 199-225): the marker of
\* the catalog record of each match gets the green icon
RECURSIVE FoundMarkers(_, _, _)
FoundMarkers(markers, catalog, validMatches) ==
    IF validMatches = <<>> THEN markers
    ELSE LET i == FindPark(catalog, Head(validMatches).site_id)
             next == IF i = 0 THEN markers
                     ELSE [markers EXCEPT ![MarkerKey(catalog, i)].icon = "green"]
         IN FoundMarkers(next, catalog, Tail(validMatches))

\* the calls issued before call k and still pending, marked as overtaken
Overtaken(pending, k) ==
    [j \in 1..Len(pending) |->
        IF j < k THEN [pending[j] EXCEPT !.overtaken = TRUE] ELSE pending[j]]

\* the search answer arrives (nearby.js 163-237, 246)
SearchResolves(k, response) ==
    /\ k \in 1..Len(calls)
    /\ calls[k].pc = "search"
    /\ LET c == calls[k]
           validMatches == ValidMatches(parks, response, c.selectedFacilities, nearestMode)
       IN /\ currentExportData' = [j \in 1..Len(validMatches) |-> MatchItem(validMatches[j])]
          /\ parkMarkers' = FoundMarkers(parkMarkers, parks, validMatches)
          /\ searchCircle' = IF validMatches # <<>> /\ ~nearestMode
                             THEN Layer(c.userLat, c.userLon, c.distance.n)
                             ELSE searchCircle
          /\ searchRun' = [ran |-> TRUE, failed |-> "", modal |-> "",
                           postcodeInput |-> <<>>,
                           selectedFacilities |-> c.selectedFacilities,
                           sentNearest |-> c.sentNearest, nearest |-> nearestMode,
                           overtaken |-> c.overtaken,
                           distance |-> c.distance.n, userLat |-> c.userLat,
                           userLon |-> c.userLon, response |-> response,
                           validMatches |-> validMatches]
    /\ calls' = RemoveAt(Overtaken(calls, k), k)
    /\ loader' = FALSE
    /\ rankRun' = NoRankRun
    /\ exportRun' = NoExportRun
    /\ UNCHANGED <<networkVars, strayUserMarker, parks, userMarker, nearestMode, rankTimers, animationTimeouts,
                   tieModal>>

(***************************************************************************)
(* exportParksToCSV (ui.js 293-351)                                        *)
(***************************************************************************)
\* item.site_id of an element of currentExportData
ItemId(catalog, item) ==
    IF item.src = "park" THEN catalog[item.i].site_id ELSE item.site_id

\* exportData.map(item => parks.find(...) || item)
FullData(catalog, exportData) ==
    [k \in 1..Len(exportData) |->
        LET i == FindPark(catalog, ItemId(catalog, exportData[k]))
        IN IF i # 0 THEN ParkItem(i) ELSE exportData[k]]

\* no file is made when the export data are empty (ui.js 298-302); `file`
\* tells whether the download link was clicked (345)
ExportParksToCSV ==
    /\ exportRun' = [ran |-> TRUE, file |-> currentExportData # <<>>,
                      fullData |-> FullData(parks, currentExportData)]
    /\ rankRun' = NoRankRun
    /\ searchRun' = NoSearchRun
    /\ UNCHANGED <<networkVars, strayUserMarker, parks, currentExportData, userMarker, searchCircle, nearestMode,
                   loader, rankTimers, calls, parkMarkers, animationTimeouts, tieModal>>

(***************************************************************************)
(* The ranking handlers over every catalog.                                *)
(***************************************************************************)
InitRanking == \E catalog \in RankingCatalogs : InitWith(catalog)

\* the queries on the quality metric with every limit, and one on a key no
\* record has
RankingQueries ==
    {<<<<"quality", order>>, DigitsOf(k)>> : order \in {"highest", "lowest"}, k \in 1..NParks}
        \cup {<<<<"views", "highest">>, <<"1">>>>}

\* one ranking at a time: the next one is requested after the deferred
\* computation has run
NextRanking ==
    \/ /\ rankTimers = <<>>
       /\ \E q \in RankingQueries : ApplyRanking(q[1], q[2])
    \/ RankTimerFire
    \/ RevealTimerFire(1)

SpecRanking == InitRanking /\ [][NextRanking]_vars


(***************************************************************************)
(* Properties of the ranking computation.  They are stated over the result *)
(* of the computation that ran last (rankRun) and the catalog, with        *)
(* definitions of their own: a record has a numeric value when the value   *)
(* is a number.                                                            *)
(***************************************************************************)
Range(f) == {f[k] : k \in DOMAIN f}

RankedValue(k) == GetField(parks[rankRun.topResults[k]], rankRun.dataKey)

RankedRank(k) == parks[rankRun.topResults[k]].displayRank

HasNumber(i) == GetField(parks[i], rankRun.dataKey).t = "num"

NumberOf(i) == GetField(parks[i], rankRun.dataKey).n

NumericRecords == {i \in 1..Len(parks) : HasNumber(i)}

\* i's value is equal-to-or-better than j's in the order of the query
AsGoodAs(i, j) ==
    IF rankRun.order = "highest" THEN NumberOf(i) >= NumberOf(j)
    ELSE NumberOf(i) <= NumberOf(j)

\* the records that hold the value at 1-based sorted position `limit`
AtPosition(limit) ==
    {j \in NumericRecords :
        /\ Cardinality({i \in NumericRecords : AsGoodAs(i, j)}) >= limit
        /\ Cardinality({i \in NumericRecords : AsGoodAs(i, j) /\ ~AsGoodAs(j, i)}) < limit}

\* C1: tie-inclusive top-N.  When more than `limit` records have a numeric
\* value, the returned set is exactly the records whose value is
\* equal-to-or-better than the value at sorted position `limit` (so at least
\* `limit` records, with every record tied at the cutoff); otherwise every
\* record with a numeric value is returned.
C1_TieInclusiveTopN ==
    rankRun.ran =>
        IF Cardinality(NumericRecords) > rankRun.num
        THEN /\ Range(rankRun.topResults) =
                  {i \in NumericRecords : \E j \in AtPosition(rankRun.num) : AsGoodAs(i, j)}
             /\ Len(rankRun.topResults) >= rankRun.num
        ELSE Range(rankRun.topResults) = NumericRecords

\* C2: rank step rule.  The first returned record has displayRank 1; a later
\* record has the displayRank of its predecessor iff their metric values are
\* equal, and otherwise its own 1-based position.
C2_RankStepRule ==
    (rankRun.ran /\ rankRun.topResults # <<>>) =>
        /\ RankedRank(1) = 1
        /\ \A k \in 1..(Len(rankRun.topResults) - 1) :
              /\ (RankedRank(k + 1) = RankedRank(k)) <=> (RankedValue(k + 1) = RankedValue(k))
              /\ RankedValue(k + 1) # RankedValue(k) => RankedRank(k + 1) = k + 1

\* a result with a tie and a rank step that skips the tied positions
C2_Witness ==
    /\ rankRun.ran
    /\ Len(rankRun.topResults) >= 3
    /\ RankedRank(1) = 1 /\ RankedRank(2) = 1 /\ RankedRank(3) = 3

FirstPositionOf(k) ==
    CHOOSE j \in 1..Len(rankRun.topResults) :
        /\ RankedValue(j) = RankedValue(k)
        /\ \A h \in 1..(j - 1) : RankedValue(h) # RankedValue(k)

\* C3: global rank invariant.  Any two returned records with equal metric
\* value have equal displayRank, and each record's displayRank is the 1-based
\* position of the first returned record with its value.
C3_GlobalRankInvariant ==
    rankRun.ran =>
        \A k \in 1..Len(rankRun.topResults) :
            /\ RankedRank(k) = FirstPositionOf(k)
            /\ \A j \in 1..Len(rankRun.topResults) :
                  RankedValue(j) = RankedValue(k) => RankedRank(j) = RankedRank(k)

\* C4: no returned (ranked, exported) record has a null, absent or
\* non-numeric value of the active metric.
C4_OnlyNumericRanked ==
    rankRun.ran =>
        /\ \A k \in 1..Len(rankRun.topResults) : RankedValue(k).t = "num"
        /\ currentExportData = ParkItems(rankRun.topResults) =>
              \A k \in 1..Len(currentExportData) :
                  GetField(parks[currentExportData[k].i], rankRun.dataKey).t = "num"


(***************************************************************************)
(* The location search over every combination of catalog facility lists,   *)
(* with a backend that may answer anything.                                *)
(***************************************************************************)
\* " tAp": Tap in another letter case and with surrounding blanks
TapVariant == <<" ", "t", "A", "p">>

\* values of the `facilities` property of a catalog record
FacilityFields ==
    {NoArray("undef"), ArrayOf(<<<<"t", "a", "p", " ">>>>), ArrayOf(<<Path, Tap>>)}

SearchCatalogs ==
    {[i \in 1..NParks |-> Park(i, Num(1), f[i])] :
        f \in [1..NParks -> FacilityFields]}

\* the catalogs in which the records that MatchPool names have every
\* combination of facility lists
CandidateCatalogs ==
    {[i \in 1..NParks |-> Park(i, Num(1), IF i <= 2 THEN f[i] ELSE ArrayOf(<<Path, Tap>>))] :
        f \in [1..2 -> FacilityFields]}

\* values of the checked facility boxes
FacilityChoices == {TapVariant, Path}

\* values of the postcode input
ValidPostcode == <<"E", "H", "1", " ", "1", "A", "A">>

PostcodeInputs ==
    {<<>>, <<" ">>, <<"E", "H", "1">>,
     <<" ", "e", "h", "1", " ", "1", "a", "a">>}

\* values of the distance input
DistanceInputs == {<<>>, <<"-", "1">>} \cup {DigitsOf(k) : k \in 0..MaxCoord}

\* match objects a backend may put into its answer
MatchPool ==
    {[site_id |-> Num(1), distance |-> 1],
     [site_id |-> Str(<<"1">>), distance |-> 0],
     [site_id |-> Num(2), distance |-> 1],
     [site_id |-> Str(<<"0", "1">>), distance |-> 0]}

RECURSIVE SeqsUpTo(_, _)
SeqsUpTo(S, n) ==
    IF n = 0 THEN {<<>>}
    ELSE LET shorter == SeqsUpTo(S, n - 1)
         IN shorter \cup {Append(q, x) : q \in shorter, x \in S}

AnyResponses == SeqsUpTo(MatchPool, MaxResp)

InitSearch == \E catalog \in CandidateCatalogs : InitWith(catalog)

\* one search at a time: the next one is requested after the answer of the
\* previous one has been handled
NextSearch ==
    \/ /\ calls = <<>>
       /\ \E postcodeInput \in PostcodeInputs, selectedFacilities \in SUBSET FacilityChoices :
             ApplyLocationSearch(postcodeInput, <<>>, selectedFacilities)
    \/ GeocodeFails(1)
    \/ GeocodeResolves(1, 0, 0)
    \/ SearchFails(1)
    \/ \E response \in AnyResponses : SearchResolves(1, response)
    \/ \E isNearest \in BOOLEAN : SetSearchMode(isNearest)

SpecSearch == InitSearch /\ [][NextSearch]_vars


(***************************************************************************)
(* Properties of the facility filter and the final selection, stated over  *)
(* the locals of the call whose search answer was handled (searchRun).     *)
(***************************************************************************)
\* two facility names are the same up to letter case and surrounding blanks
SameFacility(a, b) == trim(toLowerCase(a)) = trim(toLowerCase(b))

\* the catalog records with the site id of `match`, ids compared as strings
RecordsOf(match) ==
    {i \in 1..Len(parks) : String(parks[i].site_id) = String(match.site_id)}

\* record i lists every required facility
HasAllRequired(i, required) ==
    /\ parks[i].facilities.t = "arr"
    /\ \A req \in required :
          \E k \in 1..Len(parks[i].facilities.a) :
              SameFacility(parks[i].facilities.a[k], req)

Qualifies(match) ==
    \E i \in RecordsOf(match) : HasAllRequired(i, searchRun.selectedFacilities)

\* C6: strict conjunctive facility match.  No park of the final result
\* (validMatches, and the match objects in currentExportData) is without a
\* catalog record, without a facilities list or without one of the required
\* facilities.
C6_StrictFacilityMatch ==
    searchRun.ran =>
        /\ \A j \in 1..Len(searchRun.validMatches) : Qualifies(searchRun.validMatches[j])
        /\ \A j \in 1..Len(currentExportData) :
              currentExportData[j].src = "match" =>
                  \E h \in 1..Len(searchRun.validMatches) :
                      /\ currentExportData[j] = MatchItem(searchRun.validMatches[h])
                      /\ Qualifies(searchRun.validMatches[h])

\* a candidate with only one of two required facilities was in the answer
\* and the result holds a park that has both
C6_Witness ==
    /\ searchRun.ran
    /\ searchRun.selectedFacilities = {TapVariant, Path}
    /\ searchRun.validMatches # <<>>
    /\ \E j \in 1..Len(searchRun.response) :
          \E i \in RecordsOf(searchRun.response[j]) :
              /\ HasAllRequired(i, {TapVariant})
              /\ ~HasAllRequired(i, {Path})

\* C7: facility filter completeness.  A candidate whose catalog record lists
\* every required facility up to letter case and surrounding blanks is in the
\* result of a within-radius search, and is the result of a nearest search
\* when it is the only such candidate.
C7_FilterCompleteness ==
    searchRun.ran =>
        \A j \in 1..Len(searchRun.response) :
            Qualifies(searchRun.response[j]) =>
                IF ~searchRun.nearest
                THEN \E h \in 1..Len(searchRun.validMatches) :
                        searchRun.validMatches[h] = searchRun.response[j]
                ELSE (\A h \in 1..Len(searchRun.response) :
                         Qualifies(searchRun.response[h]) => h = j)
                     => searchRun.validMatches = <<searchRun.response[j]>>

\* the result holds a park whose facility name differs from the required
\* one in letter case and blanks
C7_Witness ==
    /\ searchRun.ran
    /\ searchRun.selectedFacilities = {TapVariant}
    /\ \E j \in 1..Len(searchRun.validMatches) :
          \E i \in RecordsOf(searchRun.validMatches[j]) :
              /\ parks[i].facilities.t = "arr"
              /\ \A k \in 1..Len(parks[i].facilities.a) :
                    parks[i].facilities.a[k] # TapVariant

\* C8: a search handled in nearest mode yields 0 or 1 result, whatever the
\* backend answered.
C8_NearestAtMostOne ==
    (searchRun.ran /\ searchRun.nearest) =>
        /\ Len(searchRun.validMatches) <= 1
        /\ \A j \in 1..Len(currentExportData) :
              currentExportData[j].src = "match" => Len(currentExportData) <= 1

\* two candidates of the answer passed the filter and one was returned
C8_Witness ==
    /\ searchRun.ran
    /\ searchRun.nearest
    /\ Len(searchRun.validMatches) = 1
    /\ \E j, h \in 1..Len(searchRun.response) :
          j # h /\ Qualifies(searchRun.response[j]) /\ Qualifies(searchRun.response[h])


(***************************************************************************)
(* The search backend behind SEARCH_URL is not part of the page scripts;   *)
(* it is modelled after the proximity engine of the specification          *)
(* (section 4.3): distance of every record, conjunctive facility filter,   *)
(* stable sort by distance, then the nearest one or all within the radius. *)
(***************************************************************************)
\* 2 cos(k * 60 degrees)
TwoCos(k) == CASE k % 6 = 0 -> 2
               [] k % 6 \in {1, 5} -> 1
               [] k % 6 \in {2, 4} -> 0 - 1
               [] OTHER -> 0 - 2

\* 4 sin^2(k * 30 degrees), four times the haversine of k * 60 degrees
Hav4(k) == 2 - TwoCos(k)

\* the latitude of grid row k, in units of 60 degrees: row 1 is the equator
LatOf(k) == k - 1

\* DistanceKm with the cosine of the first latitude taken twice
DistanceKm_OneCos(latA, lonA, latB, lonB) ==
    4 * Hav4(LatOf(latB) - LatOf(latA))
        + TwoCos(LatOf(latA)) * TwoCos(LatOf(latA)) * Hav4(lonB - lonA)

\* the haversine of the great-circle distance between two points of a grid
\* with steps of 60 degrees, times 16:
\* hav(dLat) + cos(latA) cos(latB) hav(dLon).  The distance in kilometres is
\* its increasing image 2 R asin(sqrt(h)); distances and radii are compared
\* in this scale
DistanceKm(latA, lonA, latB, lonB) ==
    4 * Hav4(LatOf(latB) - LatOf(latA))
        + TwoCos(LatOf(latA)) * TwoCos(LatOf(latB)) * Hav4(lonB - lonA)

\* the record lists every required facility (case-insensitive, trimmed)
BackendMatches(p, required) ==
    /\ p.facilities.t = "arr"
    /\ \A req \in required :
          \E k \in 1..Len(p.facilities.a) :
              trim(toLowerCase(p.facilities.a[k])) = trim(toLowerCase(req))

\* stable insertion of record x into a list sorted by distance
RECURSIVE InsertByDistance(_, _, _)
InsertByDistance(sorted, x, dist) ==
    IF sorted = <<>> THEN <<x>>
    ELSE IF dist[sorted[Len(sorted)]] > dist[x]
         THEN InsertByDistance(SubSeq(sorted, 1, Len(sorted) - 1), x, dist)
              \o <<sorted[Len(sorted)]>>
    ELSE sorted \o <<x>>

RECURSIVE SortByDistance(_, _)
SortByDistance(idx, dist) ==
    IF idx = <<>> THEN <<>>
    ELSE InsertByDistance(SortByDistance(SubSeq(idx, 1, Len(idx) - 1), dist),
                          idx[Len(idx)], dist)

\* search(records, origin, requiredFacilities, mode); ok = FALSE is the
\* InvalidRadius failure
BackendSearch(catalog, lat, lon, required, nearestOnly, radius) ==
    LET dist == [i \in 1..Len(catalog) |->
                    DistanceKm(lat, lon, catalog[i].lat, catalog[i].lon)]
        matching == FilterIdx([i \in 1..Len(catalog) |-> i],
                              [i \in 1..Len(catalog) |-> BackendMatches(catalog[i], required)])
        sorted == SortByDistance(matching, dist)
        chosen == IF nearestOnly
                  THEN (IF sorted = <<>> THEN <<>> ELSE <<sorted[1]>>)
                  ELSE FilterIdx(sorted, [i \in 1..Len(catalog) |-> dist[i] <= radius])
    IN IF ~nearestOnly /\ radius <= 0
       THEN [ok |-> FALSE, parks |-> <<>>]
       ELSE [ok |-> TRUE,
             parks |-> [j \in 1..Len(chosen) |->
                          [site_id |-> catalog[chosen[j]].site_id,
                           distance |-> dist[chosen[j]]]]]

\* the answer to the request of call c (nearby.js 151-161)
BackendAnswer(c) ==
    BackendSearch(parks, c.userLat, c.userLon, c.selectedFacilities,
                  c.sentNearest, c.distance.n)

\* the search answer of the modelled backend arrives
BackendResolves(k) ==
    /\ k \in 1..Len(calls)
    /\ calls[k].pc = "search"
    /\ IF BackendAnswer(calls[k]).ok
       THEN SearchResolves(k, BackendAnswer(calls[k]).parks)
       ELSE SearchFails(k)

InitBackend == \E catalog \in SearchCatalogs : InitWith(catalog)

NextBackend ==
    \/ /\ calls = <<>>
       /\ \E rawDistance \in {<<>>, <<"0">>, <<"1">>},
             selectedFacilities \in SUBSET FacilityChoices :
             ApplyLocationSearch(ValidPostcode, rawDistance, selectedFacilities)
    \/ GeocodeFails(1)
    \/ \E lat \in 0..MaxCoord, lon \in 0..1 : GeocodeResolves(1, lat, lon)
    \/ SearchFails(1)
    \/ BackendResolves(1)
    \/ \E isNearest \in BOOLEAN : SetSearchMode(isNearest)

SpecBackend == InitBackend /\ [][NextBackend]_vars

RunDistance(i) ==
    DistanceKm(searchRun.userLat, searchRun.userLon, parks[i].lat, parks[i].lon)

\* the catalog records with every required facility of the handled search
MatchingRecords ==
    {i \in 1..Len(parks) : HasAllRequired(i, searchRun.selectedFacilities)}

\* C9: the park returned by a search requested as nearest-only is a closest
\* one: it has every required facility and no catalog park with every
\* required facility is strictly closer to the origin; the result is empty
\* only if no catalog park has every required facility.
C9_NearestIsClosest ==
    (searchRun.ran /\ searchRun.sentNearest) =>
        IF searchRun.validMatches = <<>>
        THEN MatchingRecords = {}
        ELSE /\ Len(searchRun.validMatches) = 1
             /\ \E i \in RecordsOf(searchRun.validMatches[1]) \cap MatchingRecords :
                   \A q \in MatchingRecords : RunDistance(q) >= RunDistance(i)

\* a farther park with the facilities exists next to the returned one, and
\* a closer park without them
C9_Witness ==
    /\ searchRun.ran /\ searchRun.sentNearest /\ searchRun.nearest
    /\ Len(searchRun.validMatches) = 1
    /\ \E i \in RecordsOf(searchRun.validMatches[1]) :
          /\ \E q \in MatchingRecords : RunDistance(q) > RunDistance(i)
          /\ \E q \in 1..Len(parks) : q \notin MatchingRecords /\ RunDistance(q) < RunDistance(i)

\* C10: a within-radius search returns every park with the required
\* facilities whose distance to the origin is at most the radius, no park
\* farther than the radius, in non-decreasing order of distance.
C10_WithinRadius ==
    (searchRun.ran /\ ~searchRun.sentNearest /\ ~searchRun.nearest) =>
        /\ \A i \in MatchingRecords :
              RunDistance(i) <= searchRun.distance =>
                  \E j \in 1..Len(searchRun.validMatches) :
                      i \in RecordsOf(searchRun.validMatches[j])
        /\ \A j \in 1..Len(searchRun.validMatches) :
              \E i \in RecordsOf(searchRun.validMatches[j]) \cap MatchingRecords :
                  /\ RunDistance(i) <= searchRun.distance
                  /\ searchRun.validMatches[j].distance = RunDistance(i)
        /\ \A j \in 1..(Len(searchRun.validMatches) - 1) :
              searchRun.validMatches[j].distance <= searchRun.validMatches[j + 1].distance

\* two parks are returned in order of distance while a third with the
\* facilities lies beyond the radius
C10_Witness ==
    /\ searchRun.ran /\ ~searchRun.sentNearest /\ ~searchRun.nearest
    /\ Len(searchRun.validMatches) >= 2
    /\ searchRun.validMatches[1].distance < searchRun.validMatches[2].distance
    /\ \E i \in MatchingRecords : RunDistance(i) > searchRun.distance


(***************************************************************************)
(* The page: every handler, in any interleaving with the pending timers    *)
(* and network answers.                                                    *)
(***************************************************************************)
\* a catalog with tied quality scores
MapCatalogs ==
    {[i \in 1..NParks |->
        Park(i, Num(MaxScore - ((i \div 2) % 2)),
             IF i % 3 = 1 THEN ArrayOf(<<Path, Tap>>)
             ELSE IF i % 3 = 2 THEN ArrayOf(<<<<"t", "a", "p", " ">>>>)
             ELSE NoArray("undef"))]}

\* answers of the backend: no park, one park, two parks
PageResponses ==
    {<<>>,
     <<[site_id |-> Str(<<"2">>), distance |-> 1]>>,
     <<[site_id |-> Str(<<"1">>), distance |-> 0], [site_id |-> Num(2), distance |-> 1]>>}

Init == \E catalog \in MapCatalogs : InitWith(catalog)

\* values of the rank-type select and the rank-number input at a click on
\* the ranking button
RankInputs ==
    {<<type, <<"2", ".", "5">>>> : type \in RankTypes \ {<<>>}}
    \cup {<<<<"quality", "highest">>, numInput>> : numInput \in RankNumbers}

\* values of the postcode input and the checked facility boxes at a click on
\* the search button
SearchInputs == {<<<<" ", "e", "h", "1", " ", "1", "a", "a">>, {TapVariant}>>}

Next ==
    \/ /\ Len(rankTimers) + Len(calls) < MaxPending
       /\ \E in \in RankInputs : ApplyRanking(in[1], in[2])
    \/ RankTimerFire
    \/ \E b \in 1..MaxPending : RevealTimerFire(b)
    \/ /\ Len(rankTimers) + Len(calls) < MaxPending
       /\ calls = <<>>
       /\ \E in \in SearchInputs : ApplyLocationSearch(in[1], <<"1">>, in[2])
    \/ GeocodeFails(1)
    \/ GeocodeResolves(1, 0, 0)
    \/ SearchFails(1)
    \/ \E response \in PageResponses : SearchResolves(1, response)
    \/ \E isNearest \in BOOLEAN : SetSearchMode(isNearest)
    \/ ClearAllInputs
    \/ \E i \in {1, NParks} : SelectSuggestion(i)

Spec == Init /\ [][Next]_vars


WithoutRank(p) == [p EXCEPT !.displayRank = 0]

SortValue(k) == Number(RankedValue(k)).n

\* C11: the ranked result is in sorted order of the metric value,
\* non-increasing for 'highest' and non-decreasing otherwise, and records
\* with equal value keep their relative catalog order.
C11_SortedStable ==
    rankRun.ran =>
        \A k, j \in 1..Len(rankRun.topResults) :
            k < j =>
                /\ IF rankRun.order = "highest" THEN SortValue(k) >= SortValue(j)
                   ELSE SortValue(k) <= SortValue(j)
                /\ SortValue(k) = SortValue(j) => rankRun.topResults[k] < rankRun.topResults[j]

\* the sort moved a record in front of an earlier record of the catalog, and
\* the result holds two records of equal value
C11_Witness ==
    /\ rankRun.ran
    /\ \E k, j \in 1..Len(rankRun.topResults) :
          k < j /\ rankRun.topResults[k] > rankRun.topResults[j]
    /\ \E k, j \in 1..Len(rankRun.topResults) :
          k < j /\ SortValue(k) = SortValue(j)


(***************************************************************************)
(* Validation of the rank-number input.                                    *)
(***************************************************************************)
\* the text of an integer that is at least 1
IsIntegerLimit(cs) == cs # <<>> /\ AllDigits(cs) /\ DigitsValue(cs) >= 1

\* C12: a limit that is below 1 or not an integer is rejected: no ranking
\* is scheduled for it and none is computed.
C12_InvalidLimitRejected ==
    /\ \A k \in 1..Len(rankTimers) : IsIntegerLimit(rankTimers[k].numInput)
    /\ rankRun.ran => IsIntegerLimit(rankRun.numInput)


(***************************************************************************)
(* Unknown metric keys.                                                    *)
(***************************************************************************)
\* the record fields that hold a metric
MetricKeys == {"quality", "safety", "accessibility", "quantity_variety", "recreation"}

\* C13: a ranking on a key that is no metric is reported as an error of its
\* own: its outcome is not the "No data." notice of a query without data.
C13_InvalidMetricReported ==
    (rankRun.ran /\ rankRun.dataKey \notin MetricKeys) => rankRun.toast # "No data."


(***************************************************************************)
(* The location search with a radius of 0 among the inputs, and the CSV    *)
(* export of what the page holds as export data: the catalog, a selected   *)
(* park or the matches of a search.                                        *)
(***************************************************************************)
NextLookup ==
    \/ /\ calls = <<>>
       /\ \E rawDistance \in {<<>>, <<"0">>} :
             ApplyLocationSearch(ValidPostcode, rawDistance, {TapVariant})
    \/ GeocodeResolves(1, 0, 0)
    \/ \E response \in AnyResponses : SearchResolves(1, response)
    \/ \E isNearest \in BOOLEAN : SetSearchMode(isNearest)
    \/ \E i \in 1..NParks : SelectSuggestion(i)
    \/ ExportParksToCSV

SpecLookup == InitSearch /\ [][NextLookup]_vars

(***************************************************************************)
(* Validation of the radius.                                               *)
(***************************************************************************)
\* C14: in within-radius mode a radius that is not above 0 is rejected: no
\* search request is sent for it and no answer is handled as its result.
C14_InvalidRadiusRejected ==
    /\ \A k \in 1..Len(calls) :
          (calls[k].pc = "search" /\ ~calls[k].sentNearest) =>
              (calls[k].distance.t = "num" /\ calls[k].distance.n > 0)
    /\ (searchRun.ran /\ ~searchRun.sentNearest) => searchRun.distance > 0


(***************************************************************************)
(* Failure of the geocoding request.                                       *)
(***************************************************************************)
\* the calls that wait for the answer to the request `request`
Awaiting(pending, request) ==
    Cardinality({k \in 1..Len(pending) : pending[k].pc = request})

\* C15: when the geocoding request of a call fails, the call ends there: no
\* search request is sent for it, the geocoding request is not repeated,
\* and the export data, the user marker and the search circle stay as they
\* were.
C15_GeocodeFailureEndsCall ==
    [][searchRun'.failed = "geocode" =>
          /\ Len(calls') = Len(calls) - 1
          /\ Awaiting(calls', "search") = Awaiting(calls, "search")
          /\ Awaiting(calls', "geocode") = Awaiting(calls, "geocode") - 1
          /\ currentExportData' = currentExportData
          /\ userMarker' = userMarker
          /\ searchCircle' = searchCircle]_vars

\* the geocoding request of a call failed while the page held the matches
\* of an earlier search
C15_Witness ==
    /\ searchRun.failed = "geocode"
    /\ currentExportData # <<>>
    /\ currentExportData[1].src = "match"


(***************************************************************************)
(* A ranking without data.                                                 *)
(***************************************************************************)
\* C16: when no catalog record has a numeric value of the chosen metric,
\* the deferred computation ends with an empty result: the export data are
\* the empty list, no record gets a rank, every marker is left black
\* without tooltip and without a pending reveal, and the loader is hidden.
C16_EmptyResult ==
    [][(rankRun'.ran /\ \A i \in 1..Len(parks) :
                            GetField(parks[i], rankRun'.dataKey).t # "num") =>
          /\ currentExportData' = <<>>
          /\ parks' = parks
          /\ \A j \in DOMAIN parkMarkers' : parkMarkers'[j] = BlackMarker
          /\ animationTimeouts' = <<>>
          /\ loader' = FALSE]_vars


(***************************************************************************)
(* Lookup of a catalog record by site id.                                  *)
(***************************************************************************)
\* the text of an id: the decimal digits of a number, the characters of a
\* string
IdText(id) == IF id.t = "num" THEN DigitsOf(id.n) ELSE id.s

\* the catalog records whose id has the text of `id`
IdRecords(id) == {i \in 1..Len(parks) : IdText(parks[i].site_id) = IdText(id)}

FirstOf(I) == CHOOSE i \in I : \A j \in I : i <= j

\* C17: ids are compared as strings.  The facility filter decides on a
\* candidate by the first catalog record whose id has the same text, number
\* or string, and drops a candidate whose id text no record has; the CSV
\* export replaces an item by that record and keeps an item whose id text
\* no record has.
C17_IdsComparedAsStrings ==
    /\ searchRun.ran =>
          /\ \A j \in 1..Len(searchRun.validMatches) :
                LET I == IdRecords(searchRun.validMatches[j].site_id)
                IN I # {} /\ HasAllRequired(FirstOf(I), searchRun.selectedFacilities)
          /\ ~searchRun.nearest =>
                \A j \in 1..Len(searchRun.response) :
                    LET I == IdRecords(searchRun.response[j].site_id)
                    IN (I # {} /\ HasAllRequired(FirstOf(I), searchRun.selectedFacilities))
                       => \E h \in 1..Len(searchRun.validMatches) :
                             searchRun.validMatches[h] = searchRun.response[j]
    /\ exportRun.ran =>
          /\ Len(exportRun.fullData) = Len(currentExportData)
          /\ \A k \in 1..Len(currentExportData) :
                LET I == IdRecords(ItemId(parks, currentExportData[k]))
                IN exportRun.fullData[k] =
                      IF I = {} THEN currentExportData[k] ELSE ParkItem(FirstOf(I))

\* the export of a match whose id is a number found the record whose id is
\* the string of that number
C17_Witness ==
    /\ exportRun.ran
    /\ \E k \in 1..Len(currentExportData) :
          /\ currentExportData[k].src = "match"
          /\ currentExportData[k].site_id.t = "num"
          /\ exportRun.fullData[k].src = "park"
          /\ parks[exportRun.fullData[k].i].site_id.t = "str"

(***************************************************************************)
(* A ranking whose deferred computation is still pending when the inputs   *)
(* are cleared or a name suggestion is selected.                           *)
(***************************************************************************)
\* C18: a superseded ranking query is discarded.  When the deferred
\* computation of a ranking fires after clearAllInputs or a suggestion
\* selection ran, and no ranking was issued since, the step leaves the
\* export data as the later operation set it, shows no tie modal, starts no
\* reveal of rank icons and rank tooltips and touches no marker.
C18_SupersededRankingDiscarded ==
    [][(/\ rankRun'.ran
        /\ rankRun'.superseded
        /\ \A k \in 1..Len(rankTimers) : rankTimers[k].superseded)
       => /\ currentExportData' = currentExportData
          /\ tieModal' = tieModal
          /\ animationTimeouts' = animationTimeouts
          /\ parkMarkers' = parkMarkers]_vars

(***************************************************************************)
(* Two calls of applyLocationSearch in flight.                             *)
(***************************************************************************)
\* C19: of two overlapping location searches the later-issued one decides.
\* The search answer of a call that arrives after the answer of a call
\* issued later was handled changes neither the export data nor the
\* highlighted markers.
C19_LaterCallWins ==
    [][(searchRun'.ran /\ searchRun'.overtaken)
       => /\ currentExportData' = currentExportData
          /\ parkMarkers' = parkMarkers]_vars

(***************************************************************************)
(* The ranking as a function of the catalog and the query.                 *)
(***************************************************************************)
\* the catalog as loaded: no record carries a rank
Unranked(catalog) ==
    [i \in 1..Len(catalog) |-> [catalog[i] EXCEPT !.displayRank = 0]]

\* C20: the ranking is deterministic.  The records returned, their order
\* and their displayRank are those the same query gives on the catalog as
\* loaded, whatever rankings ran before and whatever ranks they left on the
\* records.
C20_RankingDeterministic ==
    rankRun.ran =>
        LET fresh == Unranked(parks)
            top == TopResults(fresh, rankRun.dataKey, rankRun.order, rankRun.num)
            ranked == AssignRanks(fresh, top, rankRun.dataKey)
        IN /\ rankRun.topResults = top
           /\ \A k \in 1..Len(top) : parks[top[k]].displayRank = ranked[top[k]].displayRank

\* a ranking ran on a catalog where an earlier ranking with other
\* parameters had left a rank on a record this one does not return, and
\* this one gives a rank above 1 to a record it returns
C20_Witness ==
    /\ rankRun.ran
    /\ rankRun.topResults # <<>>
    /\ \E i \in 1..Len(parks) :
          /\ parks[i].displayRank # 0
          /\ \A k \in 1..Len(rankRun.topResults) : rankRun.topResults[k] # i
    /\ \E k \in 1..Len(rankRun.topResults) : parks[rankRun.topResults[k]].displayRank > 1

(***************************************************************************)
(* The tie note of the ranking modal.                                      *)
(***************************************************************************)
\* C21: the tie note is shown if and only if at least two returned records
\* share a displayRank, and the two implementations of showTieModal, the
\* count of distinct scores and the scan of neighbouring ranks, agree on
\* every result of a ranking.
C21_TieNoteIffSharedRank ==
    (rankRun.ran /\ rankRun.topResults # <<>>) =>
        LET shared == \E j, k \in 1..Len(rankRun.topResults) :
                          j # k /\ RankedRank(j) = RankedRank(k)
        IN /\ rankRun.tieNote.ranking = rankRun.tieNote.ui
           /\ rankRun.tieNote.ranking = shared
           /\ rankRun.tieNote.ui = shared

(***************************************************************************)
(* The distance function of the backend.                                   *)
(***************************************************************************)
\* C22: distanceKm is symmetric and zero on identical points.  The distance
\* a search answer gives for a park, measured from the origin to the park,
\* is the distance from the park to the origin, and it is 0 for a park at
\* the origin; so it is for every record of the catalog.
C22_DistanceZeroSymmetric ==
    searchRun.ran =>
        /\ \A j \in 1..Len(searchRun.validMatches) :
              \E i \in RecordsOf(searchRun.validMatches[j]) :
                  /\ searchRun.validMatches[j].distance =
                        DistanceKm(parks[i].lat, parks[i].lon,
                                   searchRun.userLat, searchRun.userLon)
                  /\ (parks[i].lat = searchRun.userLat /\ parks[i].lon = searchRun.userLon)
                        => searchRun.validMatches[j].distance = 0
        /\ \A i \in 1..Len(parks) :
              /\ RunDistance(i) = DistanceKm(parks[i].lat, parks[i].lon,
                                             searchRun.userLat, searchRun.userLon)
              /\ DistanceKm(parks[i].lat, parks[i].lon, parks[i].lat, parks[i].lon) = 0

\* the answer holds a park at another latitude and another longitude than
\* the origin
C22_Witness ==
    /\ searchRun.ran
    /\ \E j \in 1..Len(searchRun.validMatches) :
          \E i \in RecordsOf(searchRun.validMatches[j]) :
              /\ parks[i].lat # searchRun.userLat
              /\ parks[i].lon # searchRun.userLon
              /\ searchRun.validMatches[j].distance > 0

(***************************************************************************)
(* The validation of the inputs: clicks with every kind of rejected input, *)
(* on a page that shows a ranking or a search result.                      *)
(***************************************************************************)
InitGate == \E catalog \in MapCatalogs : InitWith(catalog)

NextGate ==
    \/ /\ rankTimers = <<>> /\ calls = <<>>
       /\ \E type \in RankTypes, numInput \in RankNumbers \cup {<<"1">>} :
             ApplyRanking(type, numInput)
    \/ RankTimerFire
    \/ RevealTimerFire(1)
    \/ /\ rankTimers = <<>> /\ calls = <<>>
       /\ \E postcodeInput \in PostcodeInputs \cup {ValidPostcode},
             selectedFacilities \in {{}, {TapVariant}} :
             ApplyLocationSearch(postcodeInput, <<"1">>, selectedFacilities)
    \/ GeocodeResolves(1, 0, 0)
    \/ \E response \in PageResponses : SearchResolves(1, response)
    \/ ExportParksToCSV

SpecGate == InitGate /\ [][NextGate]_vars

\* the input has no character but blanks
IsBlank(cs) == \A i \in 1..Len(cs) : cs[i] = " "

\* C23: the validation gate of applyLocationSearch.  A click that is
\* rejected sends no request and changes neither the markers, the user
\* marker, the search circle, the export data nor the loader; the modal it
\* opens is that of the first failing check in the order empty postcode,
\* invalid postcode, no facility; and a click that sends a request has
\* passed all three.
C23_ValidationGate ==
    [][/\ searchRun'.modal # "" =>
             /\ calls' = calls
             /\ parkMarkers' = parkMarkers
             /\ animationTimeouts' = animationTimeouts
             /\ userMarker' = userMarker
             /\ searchCircle' = searchCircle
             /\ currentExportData' = currentExportData
             /\ loader' = loader
             /\ searchRun'.modal =
                   IF IsBlank(searchRun'.postcodeInput) THEN "showEnterPostcodeModal"
                   ELSE IF ~PostcodeRegexTest(trim(searchRun'.postcodeInput))
                        THEN "showInvalidPostcodeModal"
                   ELSE "showSelectFacilityModal"
             /\ searchRun'.modal = "showSelectFacilityModal" =>
                   searchRun'.selectedFacilities = {}
       /\ Len(calls') > Len(calls) =>
             LET c == calls'[Len(calls')]
             IN /\ c.postcode # <<>>
                /\ PostcodeRegexTest(c.postcode)
                /\ c.selectedFacilities # {}]_vars

\* a click with an empty postcode and no facility selected was rejected on
\* a page that shows the result of a search
C23_Witness ==
    /\ searchRun.modal = "showEnterPostcodeModal"
    /\ searchRun.selectedFacilities = {}
    /\ userMarker # NoLayer
    /\ searchCircle # NoLayer
    /\ \E key \in DOMAIN parkMarkers : parkMarkers[key].icon = "green"


\* C24: a rejected click on the ranking button leaves the map untouched.
\* Without a rank type nothing changes, the export data included; with a
\* rank type and a rejected number the export data become empty, markers,
\* user marker, search circle and pending reveal timers stay and no ranking
\* is scheduled; an export that follows makes no file.
C24_RejectedRankingFrame ==
    [][/\ rankRun'.modal = "showSelectRankModal" =>
             UNCHANGED <<parks, currentExportData, userMarker, searchCircle,
                         nearestMode, loader, rankTimers, calls, parkMarkers,
                         animationTimeouts, tieModal>>
       /\ rankRun'.modal = "showEnterRankNumModal" =>
             /\ currentExportData' = <<>>
             /\ UNCHANGED <<parks, userMarker, searchCircle, nearestMode, loader,
                            rankTimers, calls, parkMarkers, animationTimeouts,
                            tieModal>>
       /\ (rankRun.modal = "showEnterRankNumModal" /\ exportRun'.ran) =>
             ~exportRun'.file]_vars

\* an export made no file after a click with a rejected number, on a page
\* where reveal timers of a ranking are pending and a marker shows a rank
C24_Witness ==
    /\ exportRun.ran
    /\ ~exportRun.file
    /\ currentExportData = <<>>
    /\ animationTimeouts # <<>>
    /\ \E key \in DOMAIN parkMarkers : parkMarkers[key].tooltip # 0


(***************************************************************************)
(* Rankings requested less than 400 ms apart: the deferred computation of  *)
(* one is pending when the next is requested.                              *)
(***************************************************************************)
OverlapQueries == {<<"quality", "highest">>, <<"quality", "lowest">>}

NextOverlap ==
    \/ /\ Len(rankTimers) < MaxPending
       /\ \E type \in OverlapQueries, k \in {1, NParks} : ApplyRanking(type, DigitsOf(k))
    \/ RankTimerFire
    \/ \E b \in 1..MaxPending : RevealTimerFire(b)

SpecOverlap == Init /\ [][NextOverlap]_vars

\* the catalog records whose marker carries a rank tooltip
Decorated == {i \in 1..Len(parks) : parkMarkers[MarkerKey(parks, i)].tooltip # 0}

\* C25: the rank decorations on the map come from a single ranking, the
\* one requested last.  While the computation of a requested ranking is
\* pending no marker shows a rank and no reveal is pending; once it has run,
\* every marker that shows a rank belongs to a park of its result and shows
\* the rank and the colour of that park, and the pending reveals are those
\* of that ranking.
C25_DecorationsOfLastRanking ==
    IF rankTimers # <<>>
    THEN Decorated = {} /\ animationTimeouts = <<>>
    ELSE /\ Len(animationTimeouts) <= 1
         /\ \A i \in Decorated :
               /\ \E k \in 1..Len(currentExportData) : currentExportData[k] = ParkItem(i)
               /\ parkMarkers[MarkerKey(parks, i)].tooltip = parks[i].displayRank
               /\ parkMarkers[MarkerKey(parks, i)].icon = ColorKey(parks[i].displayRank)


(***************************************************************************)
(* Location searches requested while the requests of an earlier one are in *)
(* flight.                                                                 *)
(***************************************************************************)
NextCalls ==
    \/ /\ Len(calls) < MaxPending
       /\ \E selectedFacilities \in {{TapVariant}, {Path}} :
             ApplyLocationSearch(ValidPostcode, <<"1">>, selectedFacilities)
    \/ \E k \in 1..MaxPending : GeocodeFails(k)
    \/ \E k \in 1..MaxPending : GeocodeResolves(k, 0, 0)
    \/ \E k \in 1..MaxPending : SearchFails(k)
    \/ \E k \in 1..MaxPending, response \in PageResponses : SearchResolves(k, response)
    \/ ClearAllInputs

SpecCalls == Init /\ [][NextCalls]_vars

(***************************************************************************)
(* The user-location marker.                                               *)
(***************************************************************************)
\* C26: at most one user-location marker is on the map, the one the global
\* userMarker references: no marker is on the map that the variable does
\* not reference.
C26_OneUserMarker == ~strayUserMarker


(***************************************************************************)
(* The search mode of a call in flight.                                    *)
(***************************************************************************)
\* C27: one location search uses one mode throughout.  The mode in force
\* when the answer is handled, which decides the cut to one result and the
\* drawing of the circle, is the mode sent in the search request; a search
\* requested as nearest-only keeps at most one match and draws no circle.
C27_OneModePerSearch ==
    [][searchRun'.ran =>
          /\ searchRun'.nearest = searchRun'.sentNearest
          /\ searchRun'.sentNearest =>
                /\ Len(searchRun'.validMatches) <= 1
                /\ searchCircle' = searchCircle]_vars


(***************************************************************************)
(* The display of a ranking and the display of a location search.          *)
(***************************************************************************)
\* the catalog records whose marker carries the icon of a search match
Highlighted == {i \in 1..Len(parks) : parkMarkers[MarkerKey(parks, i)].icon = "green"}

\* C28: the display of a ranking and that of a location search exclude each
\* other.  While a marker carries a rank tooltip no user marker and no
\* search circle is on the map, and while a marker is highlighted as a
\* match of a search no marker carries a rank tooltip.
C28_DisplaysExclusive ==
    /\ Decorated # {} => (~userMarker.on /\ ~searchCircle.on /\ ~strayUserMarker)
    /\ Highlighted # {} => Decorated = {}


(***************************************************************************)
(* The loading overlay of a location search.  Every request gets its       *)
(* answer or its failure: the oldest call in flight is never kept waiting  *)
(* for ever.                                                               *)
(***************************************************************************)
\* the request of the oldest call in flight resolves or rejects
OldestAnswered ==
    \/ GeocodeFails(1)
    \/ GeocodeResolves(1, 0, 0)
    \/ SearchFails(1)
    \/ \E response \in PageResponses : SearchResolves(1, response)

SpecCallsFair == SpecCalls /\ WF_vars(OldestAnswered)

\* C29: every location search that passed validation hides the loading
\* overlay in the end.  The overlay does not stay shown for ever, the step
\* that ends a call, whatever its outcome, leaves it hidden, and it is
\* hidden whenever no call is in flight.
C29_LoaderHidden ==
    /\ loader ~> ~loader
    /\ [][Len(calls') < Len(calls) => ~loader']_vars
    /\ [](calls = <<>> => ~loader)

\* the search request of a call was rejected, no call is in flight and the
\* overlay is hidden
C29_Witness ==
    /\ searchRun.failed = "search"
    /\ calls = <<>>
    /\ ~loader


(***************************************************************************)
(* The network analysis page (network_analysis.js): switchLayer,           *)
(* renderLayers, focusOnPark, updateLegend and the arrival of the data.    *)
(***************************************************************************)
Modes == {"walk", "drive", "bus"}

Sites == 1..NParks

\* a feature collection, by the site ids of its features; null when absent
NullData == [null |-> TRUE, ids |-> {}]

Data(ids) == [null |-> FALSE, ids |-> ids]

\* a collection of dataStore: every site has a feature in each
Stored(store) == IF store.loaded THEN Data(Sites) ELSE NullData

\* a || b on collections: an object is truthy
OrElse(a, b) == IF a.null THEN b ELSE a

\* the layer groups after renderLayers(pointsData, areasData, busData)
\* (126-216)
RenderLayers(mode, store, pointsData, areasData, busData) ==
    LET pData == OrElse(pointsData, Stored(store))
    IN IF mode = "bus"
       THEN LET bData == OrElse(busData, Stored(store))
            IN [areas |-> {}, points |-> pData.ids, busPolygons |-> bData.ids,
                busStops |-> bData.ids \cap store.stops,
                cycleStops |-> bData.ids \cap store.cycles]
       ELSE LET aData == OrElse(areasData, Stored(store))
            IN [areas |-> aData.ids, points |-> pData.ids, busPolygons |-> {},
                busStops |-> {}, cycleStops |-> {}]

\* features.filter(f => f.properties.site_id == selectedId) on a collection
\* of dataStore
Filtered(store, selectedId) ==
    IF store.loaded THEN Data(Sites \cap {selectedId}) ELSE NullData

\* the layer groups after focusOnPark() (266-323)
FocusOnPark(mode, store, selectedId) ==
    IF selectedId = 0
    THEN RenderLayers(mode, store, NullData, NullData, NullData)
    ELSE IF mode = "bus"
    THEN RenderLayers(mode, store, Filtered(store, selectedId), NullData,
                      Filtered(store, selectedId))
    ELSE RenderLayers(mode, store, Filtered(store, selectedId),
                      Filtered(store, selectedId), NullData)

\* RemoveControl which leaves the control on the map
RemoveControl_Kept(legend, count) == [legend |-> legend, count |-> count]

\* if (currentLegend) map.removeControl(currentLegend): the variable keeps
\* its reference
RemoveControl(legend, count) ==
    IF legend.on
    THEN [legend |-> [legend EXCEPT !.on = FALSE], count |-> count - 1]
    ELSE [legend |-> legend, count |-> count]

\* updateLegend (331-363)
UpdateLegend(legend, count, mode) ==
    [legend |-> [mode |-> mode, on |-> TRUE],
     count |-> RemoveControl(legend, count).count + 1]

\* switchLayer(mode) (85-116)
SwitchLayer(mode) ==
    /\ IF currentMode = mode
       THEN /\ activeButtons' = activeButtons \ {mode}
            /\ currentMode' = "null"
            /\ layers' = NoLayers
            /\ currentLegend' = RemoveControl(currentLegend, legends).legend
            /\ legends' = RemoveControl(currentLegend, legends).count
            /\ UNCHANGED parkDropdown
       ELSE /\ activeButtons' = (activeButtons \ {currentMode}) \cup {mode}
            /\ currentMode' = mode
            /\ parkDropdown' = 0
            /\ layers' = RenderLayers(mode, dataStore, NullData, NullData, NullData)
            /\ currentLegend' = UpdateLegend(currentLegend, legends, mode).legend
            /\ legends' = UpdateLegend(currentLegend, legends, mode).count
    /\ switchRun' = [ran |-> TRUE, mode |-> mode]
    /\ UNCHANGED <<dataStore, interactionVars>>

\* the four answers have arrived (48-59)
DataLoads ==
    /\ ~dataStore.loaded
    /\ dataStore' = [dataStore EXCEPT !.loaded = TRUE]
    /\ switchRun' = NoSwitchRun
    /\ UNCHANGED <<currentMode, currentLegend, legends, activeButtons, layers,
                   parkDropdown, interactionVars>>

\* a choice in the dropdown, or resetMap with the value "all" (326-329)
SelectPark(selectedId) ==
    /\ parkDropdown' = selectedId
    /\ layers' = FocusOnPark(currentMode, dataStore, selectedId)
    /\ switchRun' = NoSwitchRun
    /\ UNCHANGED <<currentMode, currentLegend, legends, activeButtons, dataStore,
                   interactionVars>>

InitNetwork ==
    \E catalog \in MapCatalogs, stops \in SUBSET Sites, cycles \in SUBSET Sites :
        InteractionStart(catalog) /\ NetworkStart(stops, cycles)

NextNetwork ==
    \/ \E mode \in Modes : SwitchLayer(mode)
    \/ DataLoads
    \/ \E selectedId \in 0..NParks : SelectPark(selectedId)

SpecNetwork == InitNetwork /\ [][NextNetwork]_vars

\* C30: the transport-mode toggle.  The button of the current mode, and no
\* other, carries its active class, none when there is no current mode;
\* switchLayer(m) on the current mode m leaves no current mode, every layer
\* group empty and no legend on the map; on another mode it makes m the
\* current mode with exactly one legend on the map.
C30_ModeToggle ==
    /\ [](activeButtons = IF currentMode = "null" THEN {} ELSE {currentMode})
    /\ [][switchRun'.ran =>
            IF currentMode = switchRun'.mode
            THEN /\ currentMode' = "null"
                 /\ layers' = NoLayers
                 /\ legends' = 0
            ELSE /\ currentMode' = switchRun'.mode
                 /\ legends' = 1
                 /\ currentLegend'.on
                 /\ currentLegend'.mode = switchRun'.mode]_vars

\* a mode was switched off after its layers and its legend had been shown
C30_Witness ==
    /\ switchRun.ran
    /\ currentMode = "null"
    /\ currentLegend.mode = switchRun.mode
    /\ dataStore.loaded
    /\ legends = 0

====
